---- MODULE Spec2Model ----
(***************************************************************************)
(* Model of azure_startup.py: the launch of the primary application, the   *)
(* fallback health server (MinimalHealthHandler) started when the import   *)
(* fails, and the two keep-alive loops.                                    *)
(***************************************************************************)
EXTENDS Integers, Sequences, FiniteSets, TLC

VARIABLES
    pc,                  \* position of the script
    e,                   \* exception bound by the top-level except clauses
    server_error,        \* exception bound by `except Exception as server_error`
    uncaught,            \* class of the exception that ended the process
    imported,            \* module-level names bound by the except blocks
    tiers,               \* tier banners printed so far, in order
    main_calls,          \* number of calls of main()
    started,             \* the primary application has started
    servers,             \* number of HTTPServer objects constructed
    port,                \* value of `port`
    slept,               \* argument of the last time.sleep call
    heartbeats,          \* heartbeat lines printed
    last_cleanup_result, \* the module-level dict shared by the handlers
    req,                 \* the request handled last
    content,             \* its Content-Length header and the bytes behind it
    conn,                \* the connection of `req` as its handler found it
    wire,                \* what the handler of `req` got onto the connection
    emitted,             \* the response calls the handler of `req` made
    retention_hours,     \* argument passed to run_cleanup_operation by `req`
    result,              \* value returned by run_cleanup_operation for `req`
    cleanup_error,       \* exception bound by the inner except of do_POST
    writes,              \* assignments to last_cleanup_result made by `req`
    cleanup_requested,   \* a POST /api/cleanup has been handled
    handling             \* "cleanup" while do_POST waits for the operation

vars == <<pc, e, server_error, uncaught, imported, tiers, main_calls, started,
          servers, port, slept, heartbeats, last_cleanup_result, req, content,
          conn, wire, emitted, retention_hours, result, cleanup_error, writes,
          cleanup_requested, handling>>

supervisorVars == <<pc, e, server_error, uncaught, imported, tiers, main_calls,
                    started, servers, port, slept, heartbeats>>

requestVars == <<req, content, conn, wire, emitted, retention_hours, result,
                 cleanup_error, writes, cleanup_requested, handling>>

----------------------------------------------------------------------------
(* Bounds *)

MaxHeartbeats == 2

(* Program constants *)

DefaultPort == 8000
FallbackSleep == 60
KeepAliveSleep == 300
DefaultRetention == 24

----------------------------------------------------------------------------
(* Exceptions: a class and the text str() gives. *)

Exc(cls, msg) == [cls |-> cls, msg |-> msg]

NoExc == Exc("none", "")

\* A match on the exact class, which misses the subclass.
IsImportError_ExactClass(x) == x.cls = "ImportError"

\* `except ImportError` catches ImportError and its subclass ModuleNotFoundError.
IsImportError(x) == x.cls \in {"ImportError", "ModuleNotFoundError"}

\* Errors the import of azure_startup_main or the call of main() can raise.
LaunchErrors ==
    { Exc("ModuleNotFoundError", "No module named 'azure_startup_main'"),
      Exc("ImportError", ""),
      Exc("RuntimeError", "startup failed"),
      Exc("SyntaxError", "invalid syntax") }

\* Errors HTTPServer(...) or serve_forever() can raise for a port in range.
BindErrors == { Exc("OSError", "[Errno 98] Address already in use") }

NoResult == [unbound |-> "unbound"]
NoReq == [method |-> "none", path |-> "none"]
NoContent == [length |-> "absent", data |-> ""]

\* int(s) of a header or environment string: the strings int() accepts and
\* their values; for any other string int() raises ValueError.
IsIntLiteral(s) == s \in {"0", "64", "-5", "8080", "70000"}

IntOf(s) ==
    CASE s = "0"     -> 0
      [] s = "64"    -> 64
      [] s = "-5"    -> -5
      [] s = "8080"  -> 8080
      [] s = "70000" -> 70000

\* Values of the PORT environment variable.
PortEnv == {"unset", "8080", "70000", "abc"}

----------------------------------------------------------------------------
(* The shared result *)

None == "None"

\* An initial result stamped with the time of the start.
InitialResult_Stamped ==
    [timestamp |-> "2026-01-01T00:00:00",
     status    |-> "never_run",
     message   |-> "Cleanup unavailable in fallback mode"]

InitialResult ==
    [timestamp |-> None,
     status    |-> "never_run",
     message   |-> "Cleanup unavailable in fallback mode"]

----------------------------------------------------------------------------
Init ==
    /\ pc = "launching"
    /\ e = NoExc
    /\ server_error = NoExc
    /\ uncaught = "none"
    /\ imported = {}
    /\ tiers = <<"Launching">>
    /\ main_calls = 0
    /\ started = FALSE
    /\ servers = 0
    /\ port = 0
    /\ slept = 0
    /\ heartbeats = 0
    /\ last_cleanup_result = NoResult
    /\ req = NoReq
    /\ content = NoContent
    /\ conn = "up"
    /\ wire = <<>>
    /\ emitted = <<>>
    /\ retention_hours = NoResult
    /\ result = NoResult
    /\ cleanup_error = NoExc
    /\ writes = 0
    /\ cleanup_requested = FALSE
    /\ handling = "idle"

\* The two handlers of the top-level try, chosen by the class of the error.
EnterFallback(err) ==
    /\ e' = err
    /\ imported' = {"time", "json", "asyncio", "HTTPServer", "datetime"}
    /\ last_cleanup_result' = InitialResult
    /\ tiers' = Append(tiers, "Degraded")
    /\ pc' = "degraded"
    /\ UNCHANGED slept

KeepContainerAlive(err) ==
    /\ e' = err
    /\ imported' = {"traceback", "time"}
    /\ tiers' = Append(tiers, "KeepAlive")
    /\ pc' = "keep_sleep"
    /\ UNCHANGED <<last_cleanup_result, slept>>

\* `except Exception` placed first, which catches every error.
Except_ExceptionFirst(err) == KeepContainerAlive(err)

Except(err) ==
    IF IsImportError(err) THEN EnterFallback(err) ELSE KeepContainerAlive(err)

\* from azure_startup_main import main
ImportMain ==
    /\ pc = "launching"
    /\ \/ /\ pc' = "imported"
          /\ UNCHANGED <<e, imported, tiers, last_cleanup_result, slept>>
       \/ \E err \in LaunchErrors : Except(err)
    /\ UNCHANGED <<server_error, uncaught, main_calls, started, servers, port,
                   heartbeats, requestVars>>

\* main() is called and the primary application begins to start.
CallMain ==
    /\ pc = "imported"
    /\ pc' = "starting"
    /\ main_calls' = main_calls + 1
    /\ UNCHANGED <<e, started, server_error, uncaught, imported, tiers, servers, port,
                   slept, heartbeats, last_cleanup_result, requestVars>>

\* The primary application has started; main() keeps running.
MainStarted ==
    /\ pc = "starting"
    /\ pc' = "running"
    /\ started' = TRUE
    /\ UNCHANGED <<e, server_error, uncaught, imported, tiers, main_calls,
                   servers, port, slept, heartbeats, last_cleanup_result,
                   requestVars>>

\* main() raises, while starting or after it has been running.
MainRaises ==
    /\ pc \in {"starting", "running"}
    /\ \E err \in LaunchErrors : Except(err)
    /\ UNCHANGED <<server_error, uncaught, main_calls, started, servers, port,
                   heartbeats, requestVars>>

\* A return of main() followed by the keep-alive loop, as a `finally` would.
MainReturns_KeepsAlive ==
    /\ pc = "running"
    /\ KeepContainerAlive(e)
    /\ UNCHANGED <<server_error, uncaught, main_calls, started, servers, port,
                   heartbeats, requestVars>>

\* main() returns: the try statement ends and the script with it.
MainReturns ==
    /\ pc = "running"
    /\ pc' = "exited"
    /\ UNCHANGED <<e, server_error, uncaught, imported, tiers, main_calls, started,
                   servers, port, slept, heartbeats, last_cleanup_result,
                   requestVars>>

\* port = int(os.environ.get('PORT', 8000)), outside the inner try.
ReadPort ==
    /\ pc = "degraded"
    /\ \E s \in PortEnv :
          IF s # "unset" /\ ~IsIntLiteral(s)
          THEN /\ pc' = "crashed"
               /\ uncaught' = "ValueError"
               /\ UNCHANGED port
          ELSE /\ pc' = "binding"
               /\ port' = IF s = "unset" THEN DefaultPort ELSE IntOf(s)
               /\ UNCHANGED uncaught
    /\ UNCHANGED <<e, server_error, imported, tiers, main_calls, started, servers,
                   slept, heartbeats, last_cleanup_result, requestVars>>

\* except Exception as server_error: the fallback wait loop is entered.
EnterWaitLoop(err) ==
    /\ server_error' = err
    /\ tiers' = Append(tiers, "KeepAlive")
    /\ pc' = "wait_sleep"

\* server = HTTPServer(('0.0.0.0', port), MinimalHealthHandler)
BindServer ==
    /\ pc = "binding"
    /\ \/ /\ port \in 0..65535
          /\ pc' = "serving"
          /\ servers' = servers + 1
          /\ UNCHANGED <<server_error, tiers>>
       \/ /\ port \in 0..65535
          /\ \E err \in BindErrors : EnterWaitLoop(err)
          /\ UNCHANGED servers
       \/ /\ port \notin 0..65535
          /\ EnterWaitLoop(Exc("OverflowError", "bind(): port must be 0-65535."))
          /\ UNCHANGED servers
    /\ UNCHANGED <<e, uncaught, imported, main_calls, started, port, slept, heartbeats,
                   last_cleanup_result, requestVars>>

\* server.serve_forever() raises between two requests (an exception of a
\* handler is caught by the server and does not get here).
ServeForeverRaises ==
    /\ pc = "serving"
    /\ handling = "idle"
    /\ \E err \in BindErrors : EnterWaitLoop(err)
    /\ UNCHANGED <<e, uncaught, imported, main_calls, started, servers, port, slept,
                   heartbeats, last_cleanup_result, requestVars>>

\* time.sleep(n) of a `while True` loop.
Sleep(n, next) ==
    /\ heartbeats < MaxHeartbeats
    /\ slept' = n
    /\ pc' = next
    /\ UNCHANGED <<e, server_error, uncaught, imported, tiers, main_calls, started,
                   servers, port, heartbeats, last_cleanup_result, requestVars>>

\* print(f"... {datetime.now()}"): evaluating the name datetime raises
\* NameError unless `from datetime import datetime` ran.
Heartbeat(next) ==
    /\ IF "datetime" \in imported
       THEN /\ heartbeats' = heartbeats + 1
            /\ pc' = next
            /\ UNCHANGED uncaught
       ELSE /\ pc' = "crashed"
            /\ uncaught' = "NameError"
            /\ UNCHANGED heartbeats
    /\ UNCHANGED <<e, server_error, imported, tiers, main_calls, started, servers,
                   port, slept, last_cleanup_result, requestVars>>

\* A wait loop that goes back to binding the server after a heartbeat.
FallbackWaitPrint_RetryBind ==
    /\ pc = "wait_print"
    /\ pc' = "binding"
    /\ UNCHANGED <<e, server_error, uncaught, imported, tiers, main_calls, started,
                   servers, port, slept, heartbeats, last_cleanup_result,
                   requestVars>>

\* The fallback wait loop of `except Exception as server_error`.
FallbackWaitSleep ==
    /\ pc = "wait_sleep"
    /\ Sleep(FallbackSleep, "wait_print")

FallbackWaitPrint ==
    /\ pc = "wait_print"
    /\ Heartbeat("wait_sleep")

\* The loop of the top-level `except Exception as e`.
KeepAliveWaitSleep ==
    /\ pc = "keep_sleep"
    /\ Sleep(KeepAliveSleep, "keep_print")

KeepAliveWaitPrint ==
    /\ pc = "keep_print"
    /\ Heartbeat("keep_sleep")

----------------------------------------------------------------------------
(* MinimalHealthHandler: requests, JSON and the connection *)

Paths == {"/", "/health", "/api/cleanup/health", "/api/cleanup/status",
          "/api/cleanup", "/metrics"}

HealthPaths == {"/api/cleanup/health", "/health", "/"}

\* datetime.now().isoformat() / datetime.utcnow().isoformat() at the call.
Stamps == {"2026-01-01T00:00:00", "2026-01-01T00:05:00"}

\* Python values of the request's retention_hours.
PyInt(n) == [t |-> "int", n |-> n]
PyFloat(tenths) == [t |-> "float", n |-> tenths]
PyNone == [t |-> "NoneType", n |-> 0]
Absent == [t |-> "absent", n |-> 0]

\* Values of the Content-Length header ("absent": no header).
ContentLengths == {"absent", "0", "64", "-5", "abc"}

\* What rfile.read(content_length) returns; ReadError: it raises instead.
ReadError == "<connection reset>"

Bodies ==
    { "{\"retention_hours\": 48}", "{\"retention_hours\": 0}",
      "{\"retention_hours\": -5}", "{\"retention_hours\": null}",
      "{\"retention_hours\": 1.5}", "{\"other\": 1}", "[1, 2]", "not json",
      "", ReadError }

\* json.loads(body.decode('utf-8')): the kind of value and, for an object,
\* its retention_hours member.
JsonLoads(b) ==
    CASE b = "{}"                          -> [type |-> "object", rh |-> Absent]
      [] b = "{\"other\": 1}"              -> [type |-> "object", rh |-> Absent]
      [] b = "{\"retention_hours\": 48}"   -> [type |-> "object", rh |-> PyInt(48)]
      [] b = "{\"retention_hours\": 0}"    -> [type |-> "object", rh |-> PyInt(0)]
      [] b = "{\"retention_hours\": -5}"   -> [type |-> "object", rh |-> PyInt(-5)]
      [] b = "{\"retention_hours\": null}" -> [type |-> "object", rh |-> PyNone]
      [] b = "{\"retention_hours\": 1.5}"  -> [type |-> "object", rh |-> PyFloat(15)]
      [] b = "[1, 2]"                      -> [type |-> "array", rh |-> Absent]
      [] OTHER                             -> [type |-> "JSONDecodeError", rh |-> Absent]

\* The member of every object, with no default for an object without one.
ParseRetention_NoDefault(b) ==
    LET data == JsonLoads(b)
    IN  IF data.type = "object" THEN data.rh ELSE PyInt(DefaultRetention)

\* data.get('retention_hours', 24) under the bare except: a value that is no
\* dict has no get, a body that is no JSON does not load; both give 24.
ParseRetention(b) ==
    LET data == JsonLoads(b)
    IN  IF data.type = "object" /\ data.rh # Absent
        THEN data.rh
        ELSE PyInt(DefaultRetention)

\* dict.get(key) with the default None.
Get(d, key) == IF key \in DOMAIN d THEN d[key] ELSE None

\* json.dumps of a value: None is null, True is true, a str is quoted.
JsonValue(v) ==
    CASE v = None   -> "null"
      [] v = "True" -> "true"
      [] OTHER      -> "\"" \o v \o "\""

\* json.dumps of a dict of such values.
JsonDumps(d) == [key \in DOMAIN d |-> JsonValue(d[key])]

\* What run_cleanup_operation can return.
OpResults ==
    { [status |-> "success", timestamp |-> t, deleted |-> "3"] : t \in Stamps }
        \cup { [status |-> "error", timestamp |-> "2026-01-01T00:00:00",
                message |-> "storage unreachable"],
               [timestamp |-> "2026-01-01T00:00:00", deleted |-> "0"] }

\* What importing cleanup_api or running the operation can raise.
CleanupErrors ==
    { Exc("ModuleNotFoundError", "No module named 'cleanup_api'"),
      Exc("RuntimeError", "") }

\* The connection of a request: it takes every write, or it is gone before
\* the headers are flushed, or after them and before the body is written.
Connections == {"up", "broken_before_headers", "broken_before_body"}

BrokenPipe == Exc("BrokenPipeError", "[Errno 32] Broken pipe")

StatusLine(code) == [k |-> "status", v |-> code]
HeaderLine(name, value) == [k |-> "header", v |-> <<name, value>>]
EndHeaders == [k |-> "end_headers", v |-> 0]
BodyBytes(json) == [k |-> "body", v |-> json]

ContentTypeJson == HeaderLine("Content-type", "application/json")

\* send_response(code); send_header('Content-type', 'application/json');
\* end_headers(); wfile.write(json.dumps(obj).encode())
JsonResponse(code, obj) ==
    <<StatusLine(code), ContentTypeJson, EndHeaders, BodyBytes(JsonDumps(obj))>>

\* The part of a response the connection takes, and whether a write raised.
Delivered(items, io) ==
    CASE io = "up"                    -> items
      [] io = "broken_before_body"    -> SelectSeq(items, LAMBDA it : it.k # "body")
      [] io = "broken_before_headers" -> <<>>

WriteRaises(items, io) == Delivered(items, io) # items

\* The calls a handler makes for a response: all of them, the last one
\* raising when the connection is gone; before the headers are flushed that
\* is end_headers(), and the body is never written.
Attempted(items, io) ==
    IF io = "broken_before_headers"
    THEN SelectSeq(items, LAMBDA it : it.k # "body")
    ELSE items

\* The calls an except block makes for its response after a write raised: the
\* connection stays gone and end_headers() raises again.
Retried(code, io) ==
    IF io = "up" THEN <<>> ELSE <<StatusLine(code), ContentTypeJson, EndHeaders>>

\* A health body whose error is `str(e) or None`: null for an empty error.
GetBody_ErrorOrNone(path, now) ==
    IF path = "/api/cleanup/status"
    THEN last_cleanup_result
    ELSE IF path \in HealthPaths
    THEN [status        |-> "degraded",
          message       |-> "Crawler failed due to dependency conflicts - running fallback server",
          timestamp     |-> now,
          error         |-> IF e.msg = "" THEN None ELSE e.msg,
          fix_attempted |-> "True",
          cleanup_api   |-> "available"]
    ELSE [status |-> "degraded", message |-> "Fallback mode"]

\* do_GET: the body for a path.
GetBody(path, now) ==
    IF path = "/api/cleanup/status"
    THEN last_cleanup_result
    ELSE IF path \in HealthPaths
    THEN [status        |-> "degraded",
          message       |-> "Crawler failed due to dependency conflicts - running fallback server",
          timestamp     |-> now,
          error         |-> e.msg,
          fix_attempted |-> "True",
          cleanup_api   |-> "available"]
    ELSE [status |-> "degraded", message |-> "Fallback mode"]

\* A do_GET that puts the shared result back to its initial value.
do_GET_Resetting(path, now, io) ==
    /\ req' = [method |-> "GET", path |-> path]
    /\ content' = NoContent
    /\ wire' = Delivered(JsonResponse(200, GetBody(path, now)), io)
    /\ emitted' = Attempted(JsonResponse(200, GetBody(path, now)), io)
    /\ conn' = io
    /\ retention_hours' = NoResult
    /\ result' = NoResult
    /\ cleanup_error' = NoExc
    /\ writes' = 0
    /\ last_cleanup_result' = InitialResult
    /\ UNCHANGED <<cleanup_requested, handling>>

do_GET(path, now, io) ==
    /\ req' = [method |-> "GET", path |-> path]
    /\ content' = NoContent
    /\ wire' = Delivered(JsonResponse(200, GetBody(path, now)), io)
    /\ emitted' = Attempted(JsonResponse(200, GetBody(path, now)), io)
    /\ conn' = io
    /\ retention_hours' = NoResult
    /\ result' = NoResult
    /\ cleanup_error' = NoExc
    /\ writes' = 0
    /\ UNCHANGED <<last_cleanup_result, cleanup_requested, handling>>

\* do_HEAD: send_response(200); end_headers()
do_HEAD(path, io) ==
    /\ req' = [method |-> "HEAD", path |-> path]
    /\ content' = NoContent
    /\ wire' = Delivered(<<StatusLine(200), EndHeaders>>, io)
    /\ emitted' = Attempted(<<StatusLine(200), EndHeaders>>, io)
    /\ conn' = io
    /\ retention_hours' = NoResult
    /\ result' = NoResult
    /\ cleanup_error' = NoExc
    /\ writes' = 0
    /\ UNCHANGED <<last_cleanup_result, cleanup_requested, handling>>

\* A test for failure instead of success: no status counts as success.
StatusFor_NotError(r) == IF Get(r, "status") = "error" THEN 500 ELSE 200

\* The status code chosen for a returned result.
StatusFor(r) == IF Get(r, "status") = "success" THEN 200 ELSE 500

\* The dict built by `except Exception as cleanup_error`.
ErrorResponse(err, now) ==
    [status    |-> "error",
     message   |-> "Cleanup failed in fallback mode: " \o err.msg,
     timestamp |-> now]

\* An outer except that records its error in the shared result.
HandlerFailure_Stored(exc, now, io) ==
    LET response == JsonResponse(500, [error |-> exc.msg, timestamp |-> now])
    IN  /\ wire' = Delivered(response, io)
        /\ emitted' = Attempted(response, io)
        /\ conn' = io
        /\ retention_hours' = NoResult
        /\ handling' = "idle"
        /\ last_cleanup_result' = [status |-> "error", message |-> exc.msg,
                                   timestamp |-> now]

\* do_POST, outer `except Exception as e`: the shared result is not assigned.
HandlerFailure(exc, now, io) ==
    LET response == JsonResponse(500, [error |-> exc.msg, timestamp |-> now])
    IN  /\ wire' = Delivered(response, io)
        /\ emitted' = Attempted(response, io)
        /\ conn' = io
        /\ retention_hours' = NoResult
        /\ handling' = "idle"
        /\ UNCHANGED last_cleanup_result

\* do_POST for /api/cleanup up to the call of run_cleanup_operation: the
\* length and the body are read, retention_hours is parsed and the handler
\* blocks in run_until_complete.
PostCleanup(clen, data, now, io) ==
    /\ cleanup_requested' = TRUE
    /\ result' = NoResult
    /\ cleanup_error' = NoExc
    /\ writes' = 0
    /\ content' = [length |-> clen, data |-> data]
    /\ IF clen # "absent" /\ ~IsIntLiteral(clen)
       THEN HandlerFailure(
               Exc("ValueError", "invalid literal for int() with base 10: '" \o clen \o "'"),
               now, io)
       ELSE LET content_length == IF clen = "absent" THEN 0 ELSE IntOf(clen)
                body == IF content_length > 0 THEN data ELSE "{}"
            IN  IF body = ReadError
                THEN HandlerFailure(
                        Exc("ConnectionResetError", "[Errno 104] Connection reset by peer"),
                        now, io)
                ELSE /\ retention_hours' = ParseRetention(body)
                     /\ conn' = "up"
                     /\ wire' = <<>>
                     /\ emitted' = <<>>
                     /\ handling' = "cleanup"
                     /\ UNCHANGED last_cleanup_result

\* The unknown endpoint answered the way do_GET answers it.
PostNotFound_Fallback(path, io) ==
    /\ wire' = Delivered(JsonResponse(200, [status |-> "degraded", message |-> "Fallback mode"]), io)
    /\ emitted' = Attempted(JsonResponse(200, [status |-> "degraded", message |-> "Fallback mode"]), io)
    /\ content' = NoContent
    /\ conn' = io
    /\ retention_hours' = NoResult
    /\ result' = NoResult
    /\ cleanup_error' = NoExc
    /\ writes' = 0
    /\ UNCHANGED <<last_cleanup_result, cleanup_requested, handling>>

\* do_POST for any other path.
PostNotFound(path, io) ==
    /\ wire' = Delivered(JsonResponse(404, [error |-> "Not Found", path |-> path]), io)
    /\ emitted' = Attempted(JsonResponse(404, [error |-> "Not Found", path |-> path]), io)
    /\ content' = NoContent
    /\ conn' = io
    /\ retention_hours' = NoResult
    /\ result' = NoResult
    /\ cleanup_error' = NoExc
    /\ writes' = 0
    /\ UNCHANGED <<last_cleanup_result, cleanup_requested, handling>>

do_POST(path, clen, data, now, io) ==
    /\ req' = [method |-> "POST", path |-> path]
    /\ IF path = "/api/cleanup"
       THEN PostCleanup(clen, data, now, io)
       ELSE PostNotFound(path, io)

\* The error dict sent but not stored.
CleanupRaised_NotStored(err, now, io) ==
    /\ result' = NoResult
    /\ cleanup_error' = err
    /\ writes' = 0
    /\ conn' = io
    /\ wire' = Delivered(JsonResponse(500, ErrorResponse(err, now)), io)
    /\ emitted' = Attempted(JsonResponse(500, ErrorResponse(err, now)), io)
                      \o Retried(500, io)
    /\ UNCHANGED last_cleanup_result

\* do_POST, inner try: the operation (or its import) raised err, which the
\* inner except binds to cleanup_error. A write of its response that raises
\* is caught by the outer except, which tries a response of its own.
CleanupRaised(err, now, io) ==
    /\ result' = NoResult
    /\ cleanup_error' = err
    /\ last_cleanup_result' = ErrorResponse(err, now)
    /\ writes' = 1
    /\ conn' = io
    /\ wire' = Delivered(JsonResponse(500, ErrorResponse(err, now)), io)
    /\ emitted' = Attempted(JsonResponse(500, ErrorResponse(err, now)), io)
                      \o Retried(500, io)

\* do_POST, inner try: the operation returned r. A write that raises is
\* caught by the inner except, which stores its own error dict and tries its
\* own response; that raises too and the outer except tries a third.
CleanupReturned(r, now, io) ==
    LET response == JsonResponse(StatusFor(r), r)
    IN  /\ result' = r
        /\ conn' = io
        /\ wire' = Delivered(response, io)
        /\ emitted' = Attempted(response, io) \o Retried(500, io) \o Retried(500, io)
        /\ IF WriteRaises(response, io)
           THEN /\ cleanup_error' = BrokenPipe
                /\ last_cleanup_result' = ErrorResponse(BrokenPipe, now)
                /\ writes' = 2
           ELSE /\ cleanup_error' = NoExc
                /\ last_cleanup_result' = r
                /\ writes' = 1

\* The requests a client can send: the fields a handler does not read are
\* fixed.
PostRequests ==
    ((Paths \ {"/api/cleanup"}) \X {"absent"} \X {""})
        \cup ({"/api/cleanup"} \X (ContentLengths \ {"64"}) \X {""})
        \cup ({"/api/cleanup"} \X {"64"} \X Bodies)

\* serve_forever() handles one request at a time.
HandleGET ==
    /\ pc = "serving"
    /\ handling = "idle"
    /\ \E path \in Paths, now \in Stamps, io \in Connections : do_GET(path, now, io)
    /\ UNCHANGED supervisorVars

HandleHEAD ==
    /\ pc = "serving"
    /\ handling = "idle"
    /\ \E path \in Paths, io \in Connections : do_HEAD(path, io)
    /\ UNCHANGED supervisorVars

HandlePOST ==
    /\ pc = "serving"
    /\ handling = "idle"
    /\ \E r \in PostRequests, now \in Stamps, io \in Connections :
            do_POST(r[1], r[2], r[3], now, io)
    /\ UNCHANGED supervisorVars

\* run_until_complete(run_cleanup_operation(retention_hours)) ends and the
\* handler goes on to its end.
CleanupCompletes ==
    /\ pc = "serving"
    /\ handling = "cleanup"
    /\ \E now \in Stamps, io \in Connections :
          \/ \E err \in CleanupErrors : CleanupRaised(err, now, io)
          \/ \E r \in OpResults : CleanupReturned(r, now, io)
    /\ handling' = "idle"
    /\ UNCHANGED <<req, content, retention_hours, cleanup_requested>>
    /\ UNCHANGED supervisorVars

Next ==
    \/ HandleGET
    \/ HandleHEAD
    \/ HandlePOST
    \/ CleanupCompletes
    \/ ImportMain
    \/ CallMain
    \/ MainStarted
    \/ MainRaises
    \/ MainReturns
    \/ ReadPort
    \/ BindServer
    \/ ServeForeverRaises
    \/ FallbackWaitSleep
    \/ FallbackWaitPrint
    \/ KeepAliveWaitSleep
    \/ KeepAliveWaitPrint

Spec == Init /\ [][Next]_vars

----------------------------------------------------------------------------
(* The supervisor's tiers *)

LaunchPcs == {"launching", "imported", "starting", "running"}
DegradedPcs == {"degraded", "binding", "serving"}
WaitLoopPcs == {"wait_sleep", "wait_print"}
KeepAlivePcs == {"keep_sleep", "keep_print"}

Range(seq) == {seq[i] : i \in 1..Len(seq)}

\* A step in which the import or main() raised and a handler caught it.
LaunchFails == pc \in LaunchPcs /\ e' # NoExc

\* The tier a position belongs to; the end of the process is above them all.
TierOf(p) ==
    CASE p \in LaunchPcs \cup {"exited"}     -> 1
      [] p \in DegradedPcs                   -> 2
      [] p \in WaitLoopPcs \cup KeepAlivePcs -> 3
      [] OTHER                               -> 4

C2_NoExitAfterLaunchFailure ==
    e # NoExc => pc \in DegradedPcs \cup WaitLoopPcs \cup KeepAlivePcs

\* C3 as stated: whenever the degraded tier does not get to serving, whether
\* reading the port or binding failed, the supervisor enters the fallback
\* wait loop and the process does not exit.
C3_StartFailureEntersKeepAlive ==
    [][(pc \in {"degraded", "binding"} /\ pc' \notin {"binding", "serving"})
          => pc' = "wait_sleep"]_vars

C5_TierMonotonicity ==
    [][/\ TierOf(pc') >= TierOf(pc)
       /\ tiers' # tiers =>
             \E t \in {"Degraded", "KeepAlive"} :
                 tiers' = Append(tiers, t) /\ t \notin Range(tiers)
       /\ main_calls' <= 1 /\ servers' <= 1
       /\ TierOf(pc) >= 2 => main_calls' = main_calls
       /\ TierOf(pc) >= 3 => servers' = servers]_vars

C5_Witness ==
    /\ pc = "wait_sleep"
    /\ heartbeats = 1
    /\ tiers = <<"Launching", "Degraded", "KeepAlive">>

----------------------------------------------------------------------------
(* The responses of MinimalHealthHandler *)

\* The routes the documentation registers.
Registered(r) ==
    \/ r.method = "GET" /\ r.path \in HealthPaths \cup {"/api/cleanup/status"}
    \/ r.method = "POST" /\ r.path = "/api/cleanup"
    \/ r.method = "HEAD" /\ r.path = "/"

\* The handler of req has finished on a connection that took all it wrote.
Answered == pc = "serving" /\ handling = "idle" /\ req # NoReq /\ conn = "up"

NotFoundResponse(path) ==
    <<[k |-> "status", v |-> 404],
      [k |-> "header", v |-> <<"Content-type", "application/json">>],
      [k |-> "end_headers", v |-> 0],
      [k |-> "body", v |-> [error |-> "\"Not Found\"", path |-> "\"" \o path \o "\""]]>>

OperationRaised ==
    /\ pc = "serving" /\ handling = "idle"
    /\ req = [method |-> "POST", path |-> "/api/cleanup"]
    /\ retention_hours # NoResult
    /\ result = NoResult

\* The operation was invoked by req and returned.
OperationReturned ==
    /\ pc = "serving" /\ handling = "idle"
    /\ req = [method |-> "POST", path |-> "/api/cleanup"]
    /\ result # NoResult

\* C7: when the operation (or its import) raises, the shared result has
\* status "error" and a non-empty message made of the fixed prefix and the
\* text of the raised error, and the response is 500 with the shared result
\* as its JSON body.
C7_RaisedIs500AndStored ==
    OperationRaised =>
        /\ last_cleanup_result.status = "error"
        /\ last_cleanup_result.message =
              "Cleanup failed in fallback mode: " \o cleanup_error.msg
        /\ Len(last_cleanup_result.message) > 0
        /\ cleanup_error.cls \in {"ModuleNotFoundError", "RuntimeError"}
        /\ conn = "up" =>
              /\ Len(wire) = 4
              /\ wire[1] = [k |-> "status", v |-> 500]
              /\ wire[4].k = "body"
              /\ wire[4].v.status = "\"error\""
              /\ wire[4].v = [key \in DOMAIN last_cleanup_result |->
                                "\"" \o last_cleanup_result[key] \o "\""]

C7_Witness ==
    /\ OperationRaised
    /\ conn = "up"
    /\ cleanup_error.cls = "ModuleNotFoundError"
    /\ wire[1].v = 500

\* C8: when the operation returns a result, the status line is 200 exactly
\* if the result has a status field equal to "success" and 500 otherwise,
\* and the body is the JSON of the whole result.
C8_StatusCodeFollowsResult ==
    (OperationReturned /\ conn = "up") =>
        /\ Len(wire) = 4
        /\ wire[1].k = "status"
        /\ wire[1].v = 200 <=> ("status" \in DOMAIN result /\ result.status = "success")
        /\ wire[1].v \in {200, 500}
        /\ wire[4].k = "body"
        /\ wire[4].v = [key \in DOMAIN result |-> "\"" \o result[key] \o "\""]

C8_Witness ==
    /\ OperationReturned
    /\ conn = "up"
    /\ "status" \notin DOMAIN result
    /\ wire[1].v = 500

\* C9 as stated: a GET /api/cleanup/status that follows a POST /api/cleanup
\* whose operation returned a result with status "success" is answered 200
\* with exactly that result.
C9_StatusReadsBackSuccess ==
    [][(/\ OperationReturned
        /\ "status" \in DOMAIN result /\ result.status = "success"
        /\ req' = [method |-> "GET", path |-> "/api/cleanup/status"]
        /\ conn' = "up")
          => /\ wire'[1] = [k |-> "status", v |-> 200]
             /\ wire'[4].v = [key \in DOMAIN result |-> "\"" \o result[key] \o "\""]]_vars

\* C10: as long as no POST /api/cleanup has been handled, the shared result
\* has status "never_run" and no timestamp, and GET /api/cleanup/status is
\* answered 200 with that result.
C10_NeverRunBeforeAnyPost ==
    (pc \in DegradedPcs /\ ~cleanup_requested) =>
        /\ last_cleanup_result.status = "never_run"
        /\ last_cleanup_result.timestamp = "None"
        /\ (Answered /\ req = [method |-> "GET", path |-> "/api/cleanup/status"]) =>
              /\ Len(wire) = 4
              /\ wire[1] = [k |-> "status", v |-> 200]
              /\ wire[4].k = "body"
              /\ wire[4].v.status = "\"never_run\""
              /\ wire[4].v.timestamp = "null"
              /\ DOMAIN wire[4].v = DOMAIN last_cleanup_result

C10_Witness ==
    /\ Answered
    /\ ~cleanup_requested
    /\ req = [method |-> "GET", path |-> "/api/cleanup/status"]
    /\ wire[4].v.status = "\"never_run\""

----------------------------------------------------------------------------
(* POST /api/cleanup: what the request carries and what the operation gets *)

IsCleanupPost == req = [method |-> "POST", path |-> "/api/cleanup"]

\* run_cleanup_operation was called by the handler of req.
Invoked == IsCleanupPost /\ retention_hours # NoResult

\* The handler of req reads no body, or reads one that is no JSON object
\* with a retention_hours member.
MalformedBody ==
    \/ content.length \in {"absent", "0", "-5"}
    \/ /\ content.length = "64"
       /\ content.data # ReadError
       /\ \/ JsonLoads(content.data).type # "object"
          \/ JsonLoads(content.data).rh = Absent

\* The Content-Length header of req is no integer.
MalformedLength == content.length # "absent" /\ ~IsIntLiteral(content.length)

\* C11 as stated: whatever is malformed in a POST /api/cleanup, its body or
\* its Content-Length, the operation is invoked with retention_hours = 24.
C11_MalformedInputNeverRejected ==
    (IsCleanupPost /\ (MalformedBody \/ MalformedLength)) =>
        /\ Invoked
        /\ retention_hours = PyInt(DefaultRetention)

\* C11: a POST /api/cleanup whose Content-Length is absent or an integer and
\* whose body is absent, empty, no JSON, no JSON object or an object without
\* retention_hours invokes the operation with 24; one whose Content-Length
\* is no integer does not invoke the operation and is answered 500.
C11_MalformedBodyDefaults ==
    IsCleanupPost =>
        /\ MalformedBody =>
              /\ Invoked
              /\ retention_hours = PyInt(DefaultRetention)
        /\ MalformedLength =>
              /\ ~Invoked
              /\ handling = "idle"
              /\ conn = "up" => wire[1] = [k |-> "status", v |-> 500]

C11_Witness ==
    /\ IsCleanupPost
    /\ content = [length |-> "64", data |-> "{\"other\": 1}"]
    /\ handling = "idle"
    /\ result # NoResult
    /\ retention_hours = PyInt(DefaultRetention)

\* C12 as stated: the retention_hours passed to the operation is an integer
\* greater than 0, whatever the body of the POST /api/cleanup was.
C12_RetentionIsPositiveInteger ==
    Invoked => retention_hours.t = "int" /\ retention_hours.n > 0

\* Reading the request fails: the Content-Length is no integer, or
\* rfile.read raises.
ReadFails ==
    \/ MalformedLength
    \/ content.length = "64" /\ content.data = ReadError

\* A step in which the server handles a whole request or starts on one.
HandlerStep == pc = "serving" /\ pc' = "serving" /\ handling = "idle"

\* C13: a POST /api/cleanup whose length or body cannot be read does not
\* invoke the operation, leaves the shared result as it was before the
\* request and is answered 500 with a body of exactly error (the message of
\* the exception) and timestamp.
C13_HandlerFailure ==
    [][(HandlerStep /\ IsCleanupPost' /\ ReadFails') =>
          /\ ~Invoked'
          /\ handling' = "idle"
          /\ result' = NoResult
          /\ last_cleanup_result' = last_cleanup_result
          /\ conn' = "up" =>
                /\ Len(wire') = 4
                /\ wire'[1] = [k |-> "status", v |-> 500]
                /\ wire'[4].k = "body"
                /\ DOMAIN wire'[4].v = {"error", "timestamp"}
                /\ wire'[4].v.error \in
                      { "\"invalid literal for int() with base 10: 'abc'\"",
                        "\"[Errno 104] Connection reset by peer\"" }
                /\ wire'[4].v.timestamp \in { "\"" \o t \o "\"" : t \in Stamps }]_vars

C13_Witness ==
    /\ IsCleanupPost
    /\ content.length = "abc"
    /\ conn = "up"
    /\ wire[1] = [k |-> "status", v |-> 500]
    /\ "status" \in DOMAIN last_cleanup_result
    /\ last_cleanup_result.status = "success"

\* C14: once the fallback block has initialised the shared result, it
\* changes only in a step of the handler of POST /api/cleanup; every GET,
\* every HEAD and every POST to another path leaves it unchanged.
C14_OnlyCleanupPostWrites ==
    [][/\ (HandlerStep /\ ~IsCleanupPost') =>
              last_cleanup_result' = last_cleanup_result
       /\ (pc \in DegradedPcs \cup WaitLoopPcs
              /\ last_cleanup_result' # last_cleanup_result) =>
              /\ pc = "serving"
              /\ IsCleanupPost'
              /\ handling = "cleanup"]_vars

C14_Witness ==
    /\ Answered
    /\ req = [method |-> "GET", path |-> "/api/cleanup/status"]
    /\ cleanup_requested
    /\ "status" \in DOMAIN last_cleanup_result
    /\ last_cleanup_result.status = "success"
    /\ wire[4].v.status = "\"success\""

\* C15: whatever the captured startup error (an empty one included) and
\* whatever cleanup requests came before, GET on /, /health or
\* /api/cleanup/health is answered 200 with status "degraded", the error
\* as a JSON string, fix_attempted true and cleanup_api "available".
C15_HealthAlways200 ==
    (/\ Answered
     /\ req.method = "GET"
     /\ req.path \in {"/", "/health", "/api/cleanup/health"}) =>
        /\ Len(wire) = 4
        /\ wire[1] = [k |-> "status", v |-> 200]
        /\ wire[4].k = "body"
        /\ DOMAIN wire[4].v = {"status", "message", "timestamp", "error",
                               "fix_attempted", "cleanup_api"}
        /\ wire[4].v.status = "\"degraded\""
        /\ wire[4].v.error = "\"" \o e.msg \o "\""
        /\ wire[4].v.fix_attempted = "true"
        /\ wire[4].v.cleanup_api = "\"available\""

C15_Witness ==
    /\ Answered
    /\ req = [method |-> "GET", path |-> "/"]
    /\ e.msg = ""
    /\ cleanup_requested
    /\ "status" \in DOMAIN last_cleanup_result
    /\ last_cleanup_result.status = "error"
    /\ wire[4].v.error = "\"\""

\* The header lines of a response.
HasHeader(items, name, value) ==
    \E i \in 1..Len(items) :
        items[i].k = "header" /\ items[i].v = <<name, value>>

\* C16 as stated: every response the server sends, for every method and
\* path, carries the header Content-type: application/json.
C16_EveryResponseIsJson ==
    (Answered /\ wire # <<>>) =>
        HasHeader(wire, "Content-type", "application/json")

----------------------------------------------------------------------------
(* The primary application after its start *)

\* C17 as stated: once the primary application has started, no fallback
\* block and no keep-alive loop is ever entered.
C17_StartedStaysWithPrimary ==
    started => tiers = <<"Launching">> /\ servers = 0

\* C17: while main() runs and after it returns there is no server and no
\* keep-alive loop; control leaves the running application only when main()
\* raises, and then to degraded mode for an ImportError and to the
\* keep-alive loop for any other Exception.
C17_ControlLeavesOnlyByRaise ==
    [][/\ pc' \in {"running", "exited"} =>
              /\ started'
              /\ servers' = 0
              /\ tiers' = <<"Launching">>
              /\ e' = NoExc
       /\ pc = "running" =>
              \/ pc' \in {"running", "exited"}
              \/ /\ e' \in LaunchErrors
                 /\ pc' = IF IsImportError(e') THEN "degraded" ELSE "keep_sleep"
                 /\ servers' = 0
       /\ pc = "exited" => pc' = "exited"]_vars

C17_Witness ==
    /\ started
    /\ pc = "serving"
    /\ servers = 1
    /\ tiers = <<"Launching", "Degraded">>

----------------------------------------------------------------------------
(* POST /api/cleanup after the operation *)

\* C18 as stated: when the operation returns a result, the shared result is
\* assigned once during the request and equals that result when the handler
\* ends, whatever happens while the response is sent.
C18_StoredOnceAndEqualsResult ==
    OperationReturned =>
        /\ writes = 1
        /\ last_cleanup_result = result

\* The calls of a kind among the response calls of a handler.
Count(items, kind) == Cardinality({ i \in 1..Len(items) : items[i].k = kind })

\* C19 as stated: the handler of POST /api/cleanup sends nothing while the
\* operation runs and, on every path, starts exactly one response: one
\* status line and no more than one body.
C19_ExactlyOneResponse ==
    IsCleanupPost =>
        IF handling = "cleanup"
        THEN emitted = <<>> /\ wire = <<>>
        ELSE /\ Count(emitted, "status") = 1
             /\ Count(emitted, "body") <= 1

====
